---- MODULE Spec2Model ----
(***************************************************************************)
(* Model of vic_collage_creator.py: the orchestrator (main_async and the   *)
(* __main__ block), the batch downloader (get_the_vics / download_vic)     *)
(* and the collage composer (make_vic_collage).                            *)
(*                                                                         *)
(* Scales are kept in thousandths (0.010 is 10, 1.0 is 1000).  The scales  *)
(* and source sizes drawn below are ones for which width * scale is exact  *)
(* in binary floating point, so int(width * scale) is the integer quotient.*)
(***************************************************************************)
EXTENDS Integers, Sequences, FiniteSets

\* ---------------------------------------------------------------- bounds
MaxToken == 4       \* token ids a wallet may own are 1..MaxToken
MaxWallets == 2     \* wallet addresses on one command line
MaxRuns == 2        \* consecutive runs of the program in one directory
MaxFiles == 4       \* file names in a direct call of make_vic_collage

Tokens == 1..MaxToken
Names == 1..MaxFiles

\* scale arguments tried on the command line, in thousandths
ScaleArgs == {5, 10, 1000, 1001}
\* scale arguments of a direct call of make_vic_collage, in thousandths
CollageScales == {500, 1000}
\* widths and heights of the images the image host serves
HostDims == {100}
\* widths and heights of files on disk in a direct call of make_vic_collage
DiskDims == {2, 4}

VARIABLES
    run,              \* number of the current process run
    pc,               \* position of the main program
    error,            \* the unhandled exception that ended the run, or "none"
    scale,            \* args.collage_scale in thousandths, 0 before parsing
    wallets,          \* args.target_wallet_addresses, the k-th address being k
    widx,             \* index of the wallet the for loop is at
    all_image_files,  \* main_async's all_image_files
    resolved,         \* every token id tokensOfOwner returned in this run, in order
    token_ids,        \* get_the_vics's token_ids of the current/last batch
    task,             \* download task per token id: "none", "inflight", "done"
    callbacks,        \* how often each task invoked update_progress_bar
    counter,          \* update_progress_bar.counter
    rpcCalls,         \* tokensOfOwner calls issued in this run
    httpRequests,     \* image GET requests issued in this run
    vics,             \* the working directory vics/: name -> file or NoFile
    image_files,      \* the image_files argument of the last make_vic_collage call
    collage,          \* what the last make_vic_collage call of this run did
    outputDir,        \* whether output/ exists
    outputFiles       \* number of collage files written to output/

vars == <<run, pc, error, scale, wallets, widx, all_image_files, resolved,
          token_ids, task, callbacks, counter, rpcCalls, httpRequests, vics,
          image_files, collage, outputDir, outputFiles>>

\* ------------------------------------------------------------ file system
NoFile == [by |-> 0, w |-> 0, h |-> 0]

\* f'{i}.png'
FileName(i) == <<i, "png">>

\* os.path.splitext(image_file)[0]
SplitExt0(f) == f[1]

\* os.path.exists(os.path.join('vics', img_file))
Exists(disk, f) == f[2] = "png" /\ f[1] \in DOMAIN disk /\ disk[f[1]] # NoFile

\* ------------------------------------------------------ print_progress_bar
\* 100 * (iteration / float(total)) raises ZeroDivisionError when total is 0
PrintProgressBarRaises(iteration, total) == total = 0

\* ----------------------------------------------------------- token_ids.sort
RECURSIVE Insert(_, _)
Insert(x, s) ==
    IF s = <<>> THEN <<x>>
    ELSE IF x <= Head(s) THEN <<x>> \o s
    ELSE <<Head(s)>> \o Insert(x, Tail(s))

RECURSIVE Sort(_)
Sort(s) == IF s = <<>> THEN <<>> ELSE Insert(Head(s), Sort(Tail(s)))

\* the arrays tokensOfOwner may return: distinct token ids in any order
\* (line 135)
Range(s) == {s[i] : i \in DOMAIN s}
OwnedLists ==
    UNION {{s \in [1..n -> Tokens] : \A i, j \in 1..n : i # j => s[i] # s[j]} :
           n \in 0..MaxToken}

\* ------------------------------------------------------- make_vic_collage
\* int(img.width * collage_scale)
Resize(d, s) == (d * s) \div 1000

\* lines 170-179: one scaled image per listed file that exists, in list order
RECURSIVE ScaledImages(_, _, _)
ScaledImages(files, disk, s) ==
    IF files = <<>> THEN <<>>
    ELSE IF Exists(disk, Head(files))
         THEN <<[src |-> Head(files),
                 w |-> Resize(disk[Head(files)[1]].w, s),
                 h |-> Resize(disk[Head(files)[1]].h, s)]>>
              \o ScaledImages(Tail(files), disk, s)
         ELSE ScaledImages(Tail(files), disk, s)

\* len(image_files) taken for the number of images
NumImagesListed(files, scaled) == Len(files)

\* line 185
NumImages(files, scaled) == Len(scaled)

\* int(math.sqrt(n))
ISqrt(n) == CHOOSE r \in 0..n : r * r <= n /\ (r + 1) * (r + 1) > n

\* math.ceil(a / b), b > 0
CeilDiv(a, b) == (a + b - 1) \div b

MaxOf(S) == CHOOSE m \in S : \A x \in S : x <= m

Min(a, b) == IF a < b THEN a ELSE b

\* the cursor wraps only once it has passed the canvas width
WrapsPast(x, width) == x > width

\* line 202: the cursor wraps when it reaches or passes the canvas width
Wraps(x, width) == x >= width

\* lines 195-204: the paste loop over zip(image_files, scaled_images)
RECURSIVE PasteLoop(_, _, _, _, _, _, _)
PasteLoop(k, files, scaled, disk, x, y, width) ==
    IF k > Min(Len(files), Len(scaled)) THEN <<>>
    ELSE IF Exists(disk, files[k])
         THEN LET nx == x + scaled[k].w
              IN  <<[image |-> scaled[k].src, label |-> SplitExt0(files[k]),
                     x |-> x, y |-> y, w |-> scaled[k].w, h |-> scaled[k].h]>>
                  \o (IF Wraps(nx, width)
                      THEN PasteLoop(k + 1, files, scaled, disk, 0, y + scaled[k].h, width)
                      ELSE PasteLoop(k + 1, files, scaled, disk, nx, y, width))
         ELSE PasteLoop(k + 1, files, scaled, disk, x, y, width)

NoCollage == [status |-> "none", n |-> 0, rows |-> 0, cols |-> 0,
              width |-> 0, height |-> 0, pastes |-> <<>>]

\* lines 166-168: nothing listed
EmptyList(files) == files = <<>>

\* the check of lines 181-183 left out
NoValidImagesUnchecked(scaled) == FALSE

\* lines 181-183: nothing scaled
NoValidImages(scaled) == scaled = <<>>

\* lines 166-210: the outcome of make_vic_collage(files, s) on disk
MakeVicCollage(files, disk, s) ==
    IF EmptyList(files) THEN [NoCollage EXCEPT !.status = "empty"]
    ELSE LET scaled == ScaledImages(files, disk, s)
         IN  IF NoValidImages(scaled) THEN [NoCollage EXCEPT !.status = "novalid"]
             ELSE LET n == NumImages(files, scaled)
                      rows == ISqrt(n)
                  IN  IF rows = 0
                      THEN [NoCollage EXCEPT !.status = "ZeroDivisionError"]
                      ELSE LET cols == CeilDiv(n, rows)
                               width == MaxOf({scaled[i].w : i \in DOMAIN scaled}) * cols
                               height == MaxOf({scaled[i].h : i \in DOMAIN scaled}) * rows
                           IN  [status |-> "saved", n |-> n, rows |-> rows,
                                cols |-> cols, width |-> width, height |-> height,
                                pastes |-> PasteLoop(1, files, scaled, disk, 0, 0, width)]

\* the effect of a make_vic_collage call on the program's state
CallEffect(files, s) ==
    LET c == MakeVicCollage(files, vics, s)
    IN  /\ image_files' = files
        /\ collage' = c
        /\ outputDir' = (outputDir \/ c.status = "saved")
        /\ outputFiles' = IF c.status = "saved" THEN outputFiles + 1 ELSE outputFiles

\* ------------------------------------------------------------- main_async
\* the lower end of the range taken as exclusive
ScaleRejectedStrict(s) == ~(10 < s /\ s <= 1000)

\* line 246: not 0.010 <= args.collage_scale <= 1.0
ScaleRejected(s) == ~(10 <= s /\ s <= 1000)

\* lines 241-249: parse the command line and validate the scale
ParseArgs(s, ws) ==
    /\ pc = "start"
    /\ scale' = s
    /\ wallets' = ws
    /\ IF ScaleRejected(s)
       THEN pc' = "usage_error" /\ widx' = 0
       ELSE pc' = "wallets" /\ widx' = 1
    /\ all_image_files' = <<>>
    /\ UNCHANGED <<run, error, resolved, token_ids, task, callbacks, counter,
                   rpcCalls, httpRequests, vics, image_files, collage,
                   outputDir, outputFiles>>

\* line 131: to_checksum_address raises when the wallet address is malformed
\* (an address is looked at once in a run, here, so whether it is well-formed
\* is drawn here and not when the command line is drawn)
GetTheVicsBadAddress ==
    /\ pc = "wallets"
    /\ widx <= Len(wallets)
    /\ pc' = "crashed"
    /\ error' = "InvalidAddressFormat"
    /\ UNCHANGED <<run, scale, wallets, widx, all_image_files, resolved,
                   token_ids, task, callbacks, counter, rpcCalls, httpRequests,
                   vics, image_files, collage, outputDir, outputFiles>>

\* line 135: the tokensOfOwner call raises; nothing catches it
GetTheVicsRpcError ==
    /\ pc = "wallets"
    /\ widx <= Len(wallets)
    /\ rpcCalls' = rpcCalls + 1
    /\ pc' = "crashed"
    /\ error' = "RPCError"
    /\ UNCHANGED <<run, scale, wallets, widx, all_image_files, resolved,
                   token_ids, task, callbacks, counter, httpRequests, vics,
                   image_files, collage, outputDir, outputFiles>>

\* lines 127-151 up to the await: resolve, sort, draw the empty bar, launch
\* one download task per token id (each issues its GET when first scheduled).
\* A token has one owner, and the addresses of a command line are taken to be
\* different wallets, so a wallet owns no token an earlier wallet of the run
\* owned.
GetTheVicsStart(raw) ==
    /\ pc = "wallets"
    /\ widx <= Len(wallets)
    /\ rpcCalls' = rpcCalls + 1
    /\ Range(raw) \cap Range(resolved) = {}
    /\ token_ids' = Sort(raw)
    /\ resolved' = resolved \o Sort(raw)
    /\ IF PrintProgressBarRaises(0, Len(raw))
       THEN /\ pc' = "crashed"
            /\ error' = "ZeroDivisionError"
            /\ UNCHANGED <<task, callbacks, counter, httpRequests>>
       ELSE /\ pc' = "gather"
            /\ counter' = 0
            /\ task' = [t \in Tokens |-> IF t \in Range(raw) THEN "inflight" ELSE "none"]
            /\ callbacks' = [t \in Tokens |-> 0]
            /\ httpRequests' = httpRequests + Len(raw)
            /\ UNCHANGED error
    /\ UNCHANGED <<run, scale, wallets, widx, all_image_files, vics,
                   image_files, collage, outputDir, outputFiles>>

\* lines 145-147: update_progress_bar, called by task t
UpdateProgressBar(t) ==
    /\ counter' = counter + 1
    /\ callbacks' = [callbacks EXCEPT ![t] = @ + 1]

\* lines 104-109, 112-113: HTTP 200, the body is written to vics/{token_id}.png
DownloadOk(t, d) ==
    /\ task[t] = "inflight"
    /\ vics' = [vics EXCEPT ![t] = [by |-> run, w |-> d, h |-> d]]
    /\ UpdateProgressBar(t)
    /\ task' = [task EXCEPT ![t] = "done"]
    /\ UNCHANGED <<run, pc, error, scale, wallets, widx, all_image_files,
                   resolved, token_ids, rpcCalls, httpRequests, image_files,
                   collage, outputDir, outputFiles>>

\* lines 110-113: any other status, nothing is written
DownloadNon200(t) ==
    /\ task[t] = "inflight"
    /\ UpdateProgressBar(t)
    /\ task' = [task EXCEPT ![t] = "done"]
    /\ UNCHANGED <<run, pc, error, scale, wallets, widx, all_image_files,
                   resolved, token_ids, rpcCalls, httpRequests, vics,
                   image_files, collage, outputDir, outputFiles>>

\* lines 114-115: session.get or response.read raises; the handler only prints
DownloadException(t) ==
    /\ task[t] = "inflight"
    /\ task' = [task EXCEPT ![t] = "done"]
    /\ UNCHANGED <<run, pc, error, scale, wallets, widx, all_image_files,
                   resolved, token_ids, callbacks, counter, rpcCalls,
                   httpRequests, vics, image_files, collage, outputDir,
                   outputFiles>>

\* gather resuming as soon as one task has finished
GatherDoneFirstFinished == \E t \in Tokens : task[t] = "done"

\* line 151: asyncio.gather resumes get_the_vics once every task has finished
GatherDone == \A t \in Tokens : task[t] # "inflight"

\* only the token ids whose file is in vics/ are added
NewImageFilesDownloaded(ids) ==
    LET ok == SelectSeq(ids, LAMBDA i : vics[i] # NoFile)
    IN  [k \in DOMAIN ok |-> FileName(ok[k])]

\* line 253: the file names main_async adds for the wallet
NewImageFiles(ids) == [i \in DOMAIN ids |-> FileName(ids[i])]

\* lines 151-153 and 253: gather completes, get_the_vics returns token_ids
GetTheVicsReturn ==
    /\ pc = "gather"
    /\ GatherDone
    /\ all_image_files' = all_image_files \o NewImageFiles(token_ids)
    /\ widx' = widx + 1
    /\ pc' = "wallets"
    /\ UNCHANGED <<run, error, scale, wallets, resolved, token_ids, task,
                   callbacks, counter, rpcCalls, httpRequests, vics,
                   image_files, collage, outputDir, outputFiles>>

\* lines 255-260: after the last wallet, compose or report that there is nothing
MainCollage ==
    /\ pc = "wallets"
    /\ widx > Len(wallets)
    /\ IF all_image_files # <<>>
       THEN CallEffect(all_image_files, scale)
       ELSE UNCHANGED <<image_files, collage, outputDir, outputFiles>>
    /\ pc' = "returned"
    /\ UNCHANGED <<run, error, scale, wallets, widx, all_image_files, resolved,
                   token_ids, task, callbacks, counter, rpcCalls, httpRequests,
                   vics>>

\* lines 264-265: shutil.rmtree('vics') and os.mkdir('vics') after main_async
\* has returned normally
ExitReset ==
    /\ pc = "returned"
    /\ vics' = [t \in DOMAIN vics |-> NoFile]
    /\ pc' = "exit"
    /\ UNCHANGED <<run, error, scale, wallets, widx, all_image_files, resolved,
                   token_ids, task, callbacks, counter, rpcCalls, httpRequests,
                   image_files, collage, outputDir, outputFiles>>

\* line 263: the program is started again in the same directory
NewRun ==
    /\ pc \in {"exit", "usage_error", "crashed"}
    /\ run < MaxRuns
    /\ run' = run + 1
    /\ pc' = "start"
    /\ error' = "none"
    /\ scale' = 0
    /\ wallets' = <<>>
    /\ widx' = 0
    /\ all_image_files' = <<>>
    /\ resolved' = <<>>
    /\ token_ids' = <<>>
    /\ task' = [t \in Tokens |-> "none"]
    /\ callbacks' = [t \in Tokens |-> 0]
    /\ counter' = 0
    /\ rpcCalls' = 0
    /\ httpRequests' = 0
    /\ image_files' = <<>>
    /\ collage' = NoCollage
    /\ UNCHANGED <<vics, outputDir, outputFiles>>

\* line 242: nargs='+', one address or more
WalletArgs == {[i \in 1..n |-> i] : n \in 1..MaxWallets}

Init ==
    /\ run = 1
    /\ pc = "start"
    /\ error = "none"
    /\ scale = 0
    /\ wallets = <<>>
    /\ widx = 0
    /\ all_image_files = <<>>
    /\ resolved = <<>>
    /\ token_ids = <<>>
    /\ task = [t \in Tokens |-> "none"]
    /\ callbacks = [t \in Tokens |-> 0]
    /\ counter = 0
    /\ rpcCalls = 0
    /\ httpRequests = 0
    /\ vics = [t \in Tokens |-> NoFile]
    /\ image_files = <<>>
    /\ collage = NoCollage
    /\ outputDir = FALSE
    /\ outputFiles = 0

Next ==
    \/ \E s \in ScaleArgs, ws \in WalletArgs : ParseArgs(s, ws)
    \/ GetTheVicsBadAddress
    \/ GetTheVicsRpcError
    \/ \E raw \in OwnedLists : GetTheVicsStart(raw)
    \/ \E t \in Tokens, d \in HostDims : DownloadOk(t, d)
    \/ \E t \in Tokens : DownloadNon200(t)
    \/ \E t \in Tokens : DownloadException(t)
    \/ GetTheVicsReturn
    \/ MainCollage
    \/ ExitReset

\* one run of the program in a directory without vics/ and output/
Spec == Init /\ [][Next]_vars

\* consecutive runs of the program in the same directory
NextRuns == Next \/ NewRun

SpecRuns == Init /\ [][NextRuns]_vars

\* ------------------------------------- make_vic_collage called on its own
\* the lists of file names a caller may pass: distinct names, in the ascending
\* order get_the_vics leaves a wallet's token ids in
FileLists ==
    {[i \in DOMAIN s |-> FileName(s[i])] :
        s \in {q \in UNION {[1..n -> Names] : n \in 0..MaxFiles} :
                  \A i, j \in DOMAIN q : i < j => q[i] < q[j]}}

\* the working directories a call may find: a listed name is missing or is an
\* image of some size, a name that is not listed is of no interest
Disks(files) ==
    {d \in [Names -> {NoFile} \cup [by : {1}, w : DiskDims, h : DiskDims]] :
        \A t \in Names : (\A i \in DOMAIN files : files[i][1] # t) => d[t] = NoFile}

InitCollage ==
    /\ run = 1
    /\ pc = "call"
    /\ error = "none"
    /\ scale \in CollageScales
    /\ wallets = <<>>
    /\ widx = 0
    /\ all_image_files \in FileLists
    /\ resolved = <<>>
    /\ token_ids = <<>>
    /\ task = [t \in Tokens |-> "none"]
    /\ callbacks = [t \in Tokens |-> 0]
    /\ counter = 0
    /\ rpcCalls = 0
    /\ httpRequests = 0
    /\ vics \in Disks(all_image_files)
    /\ image_files = <<>>
    /\ collage = NoCollage
    /\ outputDir = FALSE
    /\ outputFiles = 0

\* lines 155-223: one call make_vic_collage(all_image_files, scale)
CallMakeVicCollage ==
    /\ pc = "call"
    /\ CallEffect(all_image_files, scale)
    /\ pc' = "called"
    /\ UNCHANGED <<run, error, scale, wallets, widx, all_image_files, resolved,
                   token_ids, task, callbacks, counter, rpcCalls, httpRequests,
                   vics>>

NextCollage == CallMakeVicCollage

SpecCollage == InitCollage /\ [][NextCollage]_vars

\* ================================================================ claims
\* get_the_vics has gathered a non-empty batch
Gathered == pc # "gather" /\ token_ids # <<>> /\ GatherDone

\* C1: once get_the_vics has gathered all tasks of a non-empty batch, the
\* progress counter equals the number of token ids and every task has invoked
\* the callback exactly once, whatever the outcome of each download.
C1_CallbackExactlyOnce ==
    Gathered =>
        /\ counter = Len(token_ids)
        /\ \A i \in DOMAIN token_ids : callbacks[token_ids[i]] = 1

\* the listed files that exist in vics/, in list order
ExistingFiles == SelectSeq(image_files, LAMBDA f : Exists(vics, f))

\* C2: when some listed files are missing and at least one exists,
\* make_vic_collage pastes every existing file's own image exactly once, in
\* list order, and labels each paste with the name of the image pasted there.
C2_SkipsExactlyMissing ==
    (pc = "called" /\ ExistingFiles # <<>>) =>
        /\ collage.status = "saved"
        /\ Len(collage.pastes) = Len(ExistingFiles)
        /\ \A k \in DOMAIN collage.pastes :
              /\ k <= Len(ExistingFiles)
              /\ collage.pastes[k].image = ExistingFiles[k]
              /\ collage.pastes[k].label = SplitExt0(collage.pastes[k].image)

\* main_async has called make_vic_collage
ComposerCalled == pc = "returned" /\ collage.status # "none"

\* C3 as stated: the list the composer receives holds {id}.png only for token
\* ids whose download succeeded in this run.
C3_OnlySuccessfulDownloads ==
    ComposerCalled =>
        \A i \in DOMAIN image_files :
            /\ vics[image_files[i][1]] # NoFile
            /\ vics[image_files[i][1]].by = run

\* C3 as amended: the list the composer receives holds {id}.png for every
\* token id resolved in this run, in order, whether or not its download
\* succeeded; a failed download is left out only of the composer's image
\* count n.
C3_EveryResolvedTokenPassed ==
    ComposerCalled =>
        /\ image_files = [i \in DOMAIN resolved |-> FileName(resolved[i])]
        /\ collage.n = Cardinality({i \in DOMAIN image_files :
                                      vics[image_files[i][1]] # NoFile})

\* four downloads, one of them failed: the composer receives four names
C3_Witness ==
    /\ ComposerCalled
    /\ Len(image_files) = 4
    /\ collage.n = 3
    /\ \E t \in Tokens : task[t] = "done" /\ callbacks[t] = 1 /\ vics[t] = NoFile

\* the number of listed files that exist in vics/
ExistingCount ==
    Cardinality({i \in DOMAIN image_files : Exists(vics, image_files[i])})

\* C4: with n >= 1 the number of listed files that exist, the grid has
\* rows = floor(sqrt(n)) and columns = ceil(n / rows), rows * columns >= n,
\* and four names with one file missing give rows = 1, columns = 3.
C4_GridShape ==
    (pc = "called" /\ ExistingCount >= 1) =>
        /\ collage.status = "saved"
        /\ collage.n = ExistingCount
        /\ collage.rows >= 1
        /\ collage.rows * collage.rows <= collage.n
        /\ (collage.rows + 1) * (collage.rows + 1) > collage.n
        /\ collage.rows * collage.cols >= collage.n
        /\ collage.rows * (collage.cols - 1) < collage.n
        /\ (Len(image_files) = 4 /\ ExistingCount = 3) =>
              (collage.rows = 1 /\ collage.cols = 3)

C4_Witness ==
    /\ pc = "called"
    /\ Len(image_files) = 4
    /\ ExistingCount = 3
    /\ collage.rows = 1
    /\ collage.cols = 3

\* C5: a scale outside [0.010, 1.0] ends the run with a usage error before
\* any RPC call or image request and without a collage; 0.010 and 1.0 are
\* accepted.
C5_ScaleRejectedBeforeNetwork ==
    /\ pc # "start" => ((scale < 10 \/ scale > 1000) <=> pc = "usage_error")
    /\ pc = "usage_error" =>
          /\ rpcCalls = 0
          /\ httpRequests = 0
          /\ \A t \in Tokens : task[t] = "none"
          /\ collage = NoCollage
          /\ outputFiles = 0

C5_Witness == pc = "usage_error" /\ scale = 5

\* C6: get_the_vics launches one task per token id and returns only when
\* every one has finished: no download is in flight when the next wallet is
\* started, when the composer runs or after, whatever the tasks' outcomes.
C6_GatherWaitsForAll ==
    /\ pc # "gather" => \A t \in Tokens : task[t] # "inflight"
    /\ pc = "gather" => \A t \in Tokens : task[t] # "none" <=> t \in Range(token_ids)

\* a batch in which a download raised and another succeeded has returned
C6_Witness ==
    /\ pc = "wallets"
    /\ widx = 2
    /\ Len(token_ids) >= 2
    /\ \E t, u \in Range(token_ids) :
          /\ task[t] = "done" /\ callbacks[t] = 0
          /\ task[u] = "done" /\ vics[u] # NoFile

\* C7: a call with an empty list, or with no listed file in vics/, returns
\* without an error, writes no output file and does not create output/; the
\* grid is never computed with rows = 0.
C7_NoImagesNoOutput ==
    /\ collage.status # "ZeroDivisionError"
    /\ collage.status = "saved" => collage.rows >= 1
    /\ (pc = "called" /\ ExistingCount = 0) =>
          /\ collage.status \in {"empty", "novalid"}
          /\ outputFiles = 0
          /\ ~outputDir

C7_Witness ==
    /\ pc = "called"
    /\ image_files # <<>>
    /\ ExistingCount = 0
    /\ collage.status = "novalid"

\* C8: whenever the composer runs, every file in vics/ was written by a
\* download of the current run, also when the run before ended with an
\* unhandled error (vics/ being reset before the first wallet and after the
\* collage step).
C8_WorkingDirectoryFresh ==
    ComposerCalled => \A t \in Tokens : vics[t] # NoFile => vics[t].by = run

\* C9: a wallet that owns no token is processed without error.
C9_ZeroTokenWalletOk ==
    pc = "crashed" => error \in {"InvalidAddressFormat", "RPCError"}

\* no listed file is missing
NoneMissing == \A i \in DOMAIN image_files : Exists(vics, image_files[i])

\* every paste lies inside the canvas
InsideCanvas ==
    \A k \in DOMAIN collage.pastes :
        /\ collage.pastes[k].x + collage.pastes[k].w <= collage.width
        /\ collage.pastes[k].y + collage.pastes[k].h <= collage.height

\* C10 as stated: with no file missing, whatever the sizes, every image is
\* pasted entirely inside the canvas.
C10_EveryImageInsideCanvas ==
    (collage.status = "saved" /\ NoneMissing) => InsideCanvas

\* all listed files have one size
UniformSize ==
    \A i, j \in DOMAIN image_files :
        /\ vics[image_files[i][1]].w = vics[image_files[j][1]].w
        /\ vics[image_files[i][1]].h = vics[image_files[j][1]].h

\* C10 as amended: with no file missing and all images of one size w x h
\* (w, h >= 1), every image is pasted entirely inside the canvas, the k-th
\* (0-based) at ((k mod columns) * w, (k div columns) * h).
C10_UniformImagesInsideCanvas ==
    (collage.status = "saved" /\ NoneMissing /\ UniformSize) =>
        /\ Len(collage.pastes) = Len(image_files)
        /\ InsideCanvas
        /\ \A k \in DOMAIN collage.pastes :
              /\ collage.pastes[k].w >= 1
              /\ collage.pastes[k].h >= 1
              /\ collage.pastes[k].x = ((k - 1) % collage.cols) * collage.pastes[k].w
              /\ collage.pastes[k].y = ((k - 1) \div collage.cols) * collage.pastes[k].h

\* four images of one size, pasted in two rows
C10_Witness ==
    /\ collage.status = "saved"
    /\ NoneMissing
    /\ UniformSize
    /\ Len(collage.pastes) = 4
    /\ collage.rows = 2
    /\ collage.pastes[4].x > 0
    /\ collage.pastes[4].y > 0

====
